---- MODULE Spec2Model ----
(***************************************************************************)
(* Notification dispatch pipeline of the workflow runtime:                 *)
(*   app/notify/dispatcher.py  NotificationDispatcher.dispatch / deliver   *)
(*   app/notify/repository.py  SQLANotificationRepository.add              *)
(*   app/notify/worker.py      dispatch (queue worker entry point)         *)
(*   app/jobs/scheduler.py     QuietHours.allows                           *)
(* One dispatch() run walks rows x actions; workers execute enqueued jobs  *)
(* concurrently with it and write into the same audit store.               *)
(***************************************************************************)
EXTENDS Integers, Sequences, FiniteSets, TLC

\* ---------------------------------------------------------------- bounds
\* rows the evaluated_rows iterable yields at most
MaxRows == 2
\* executions of enqueued jobs by workers, retries included
MaxDeliveries == 2

\* ------------------------------------------------------- value encodings
\* Python None for string-valued fields
NoneV == "<None>"
\* Python None for job_id (job ids are the positive integers, uuid4 order)
NoJob == 0

\* minutes of a day, time(h, m)
Time(h, m) == h * 60 + m

\* NotificationDispatcher.__init__ default job_name
JobName == "app.notify.worker.dispatch"
\* name attribute of the injected queue / origin of the worker's current job
QueueName == "notifications"

\* str.lower() on the strings that occur
Lower(s) ==
    CASE s = "Email" -> "email"
      [] s = "Notify" -> "notify"
      [] OTHER -> s

\* ----------------------------------------------------------- run inputs
\* rows as the rule engine hands them over: row fields and rule_results
RowKinds ==
    [canal : {"email", "sms"}, debe_notificar : BOOLEAN]

\* playbook actions; when = NoneV is a missing guard
ActionKinds ==
    { [type |-> "notify", channel |-> "{{ row.canal }}",
       when |-> "{{ rule_results.debe_notificar }}"],
      [type |-> "Notify", channel |-> "Email", when |-> NoneV],
      [type |-> "log", channel |-> "email", when |-> NoneV] }

\* the actions lists of the playbooks
ActionLists == { << a, b >> : a \in ActionKinds, b \in ActionKinds }

\* adapter registries a dispatcher is constructed with (keys lower-cased)
AdapterConfigs == { {}, {"email"} }

\* the registry worker.py builds
WorkerAdapters == {"email", "whatsapp"}

\* quiet windows a scheduler is configured with; set = FALSE is no window
QuietConfigs ==
    { [set |-> FALSE, start |-> 0, end |-> 0],
      [set |-> TRUE, start |-> Time(21, 0), end |-> Time(8, 0)] }

\* instants the injected clock (now_provider) returns; one per run
Clock == { Time(10, 0), Time(22, 0) }

\* what one adapter invocation does: return a mapping, None or something
\* else, or raise
AdapterOutcomes ==
    { [kind |-> "return", value |-> "mapping", exc |-> NoneV, msg |-> NoneV],
      [kind |-> "return", value |-> "none", exc |-> NoneV, msg |-> NoneV],
      [kind |-> "return", value |-> "list", exc |-> NoneV, msg |-> NoneV],
      [kind |-> "raise", value |-> NoneV, exc |-> "RuntimeError", msg |-> "boom"],
      [kind |-> "raise", value |-> NoneV, exc |-> "RuntimeError", msg |-> ""],
      [kind |-> "raise", value |-> NoneV, exc |-> "AdapterNotFoundError",
       msg |-> "No existe un adaptador configurado"] }

\* ------------------------------------------------------------ QuietHours
\* allows() without the branch for a window that spans midnight
allows_NoWrap(qh, current) == ~(qh.start <= current /\ current < qh.end)

\* allows() whose window end belongs to the quiet time
allows_ClosedEnd(qh, current) ==
    IF qh.start < qh.end
    THEN ~(qh.start <= current /\ current <= qh.end)
    ELSE qh.end < current /\ current < qh.start

\* allows() taking a window with start == end for an empty window
allows_EmptyWindow(qh, current) ==
    IF qh.start = qh.end THEN TRUE
    ELSE IF qh.start < qh.end
    THEN ~(qh.start <= current /\ current < qh.end)
    ELSE qh.end <= current /\ current < qh.start

\* QuietHours.allows(now): True when now is outside the quiet window
allows(qh, current) ==
    IF qh.start < qh.end
    THEN ~(qh.start <= current /\ current < qh.end)
    ELSE qh.end <= current /\ current < qh.start

\* ------------------------------------------------------- action renderer
\* _eval_expression on the expressions the actions use
_eval_expression(expression, item) ==
    CASE expression = "row.canal" -> [t |-> "str", s |-> item.canal, b |-> FALSE]
      [] expression = "rule_results.debe_notificar" ->
            [t |-> "bool", s |-> "", b |-> item.debe_notificar]
      [] OTHER -> [t |-> "bool", s |-> "", b |-> TRUE]

\* text between "{{" and "}}", stripped; NoneV when s is no such template
Inner(s) ==
    CASE s = "{{ row.canal }}" -> "row.canal"
      [] s = "{{ rule_results.debe_notificar }}" -> "rule_results.debe_notificar"
      [] OTHER -> NoneV

\* _should_dispatch(condition, context)
_should_dispatch(condition, item) ==
    IF condition = NoneV THEN TRUE
    ELSE IF condition = "" THEN TRUE
    ELSE LET expression == IF Inner(condition) # NoneV THEN Inner(condition)
                           ELSE condition
             value == _eval_expression(expression, item)
         IN  IF value.t = "str"
             THEN IF Lower(value.s) \in {"", "false", "0", "no"} THEN FALSE
                  ELSE TRUE
             ELSE value.b

\* _render_template(template, context)
_render_template(template, item) ==
    IF Inner(template) # NoneV
    THEN LET value == _eval_expression(Inner(template), item)
         IN  IF value.t = "str" THEN value.s
             ELSE IF value.b THEN "True" ELSE "False"
    ELSE template

\* _render_action: every string field but `when` is rendered
_render_action(action, item) ==
    [type |-> _render_template(action.type, item),
     channel |-> _render_template(action.channel, item)]


\* ------------------------------------------------------------- helpers
\* Python `a or b` on optional strings
OrElse(a, b) == IF a # NoneV /\ a # "" THEN a ELSE b

\* _adapter_name(adapter): the name attribute or the class name
_adapter_name(channel) ==
    CASE channel = "email" -> "EmailSMTPAdapter"
      [] channel = "whatsapp" -> "WhatsAppCLIAdapter"
      [] OTHER -> "Adapter"

\* _adapter_label(channel): adapter name when registered, else the channel
_adapter_label(registry, channel) ==
    IF registry = {} THEN channel
    ELSE IF channel \in registry THEN _adapter_name(channel) ELSE channel

\* _queue_label(): "inline" without a queue, else the queue's name
_queue_label(queue_present) == IF queue_present THEN QueueName ELSE "inline"

\* _ensure_mapping(value): "ok" for a mapping or None, TypeError otherwise
_ensure_mapping(value) ==
    IF value = "mapping" THEN "ok"
    ELSE IF value = "none" THEN "ok"
    ELSE "TypeError"

\* NotificationAuditEntry; row/act/by say which row x action pair and which
\* process produced the entry (bookkeeping, not stored by the repository)
Entry(channel, adapter, status, error, job_id, job_name, queue_name, row, act, by) ==
    [channel |-> channel, adapter |-> adapter, subject |-> NoneV,
     status |-> status, error |-> error, job_id |-> job_id,
     job_name |-> job_name, queue_name |-> queue_name,
     row |-> row, act |-> act, by |-> by]

\* ------------------------------------------------------------- deliver
\* NotificationDispatcher.deliver: what one call does, as a record
\*   raised : exception that leaves deliver, or NoneV
\*   status : status of the returned mapping, or NoneV
\*   audits : the audit entries handed to _record_audit (none or one)
\*   called : the adapter was invoked
\*   fresh  : a job id was generated inside deliver
deliver(registry, queue_present, action, dry, job_id, job_name, queue_name, fresh_id, outcome, row, act, by) ==
    LET channel0 == Lower(action.channel)
        channel == IF channel0 = "" THEN "default" ELSE channel0
        job_identifier == IF job_id # NoJob THEN job_id ELSE fresh_id
        job_label == OrElse(job_name, JobName)
        queue_label == OrElse(queue_name, _queue_label(queue_present))
        audit(status, error) ==
            Entry(channel0, _adapter_name(channel), status, error,
                  job_identifier, job_label, queue_label, row, act, by)
        nothing == [raised |-> NoneV, status |-> NoneV, audits |-> <<>>,
                    called |-> FALSE, fresh |-> FALSE]
    IN  IF channel \notin registry
        THEN [nothing EXCEPT !.raised = "AdapterNotFoundError"]
        ELSE IF dry
        THEN [nothing EXCEPT !.status = "dry_run",
                             !.audits = << audit("dry_run", NoneV) >>,
                             !.fresh = (job_id = NoJob)]
        ELSE IF outcome.kind = "raise" /\ outcome.exc = "AdapterNotFoundError"
        THEN [nothing EXCEPT !.raised = "AdapterNotFoundError",
                             !.called = TRUE, !.fresh = (job_id = NoJob)]
        ELSE IF outcome.kind = "raise"
        THEN [nothing EXCEPT !.raised = "NotificationDeliveryError",
                             !.audits = << audit("error", outcome.msg) >>,
                             !.called = TRUE, !.fresh = (job_id = NoJob)]
        ELSE IF _ensure_mapping(outcome.value) # "ok"
        THEN [nothing EXCEPT !.raised = "TypeError",
                             !.called = TRUE, !.fresh = (job_id = NoJob)]
        ELSE [nothing EXCEPT !.status = "sent",
                             !.audits = << audit("sent", NoneV) >>,
                             !.called = TRUE, !.fresh = (job_id = NoJob)]

\* ---------------------------------------------------- audit repository
\* the status handed through as it is
_map_job_status_Identity(status) == status

\* _map_job_status
_map_job_status(status) ==
    CASE status = "queued" -> "queued"
      [] status = "dry_run" -> "dry_run"
      [] status = "quiet_hours" -> "paused"
      [] status = "sent" -> "succeeded"
      [] status = "error" -> "failed"
      [] OTHER -> status

\* the event type without the status
EventType_Bare(status) == "notification"

\* f"notification.{entry.status}"
EventType(status) ==
    CASE status = "queued" -> "notification.queued"
      [] status = "dry_run" -> "notification.dry_run"
      [] status = "quiet_hours" -> "notification.quiet_hours"
      [] status = "sent" -> "notification.sent"
      [] status = "error" -> "notification.error"
      [] OTHER -> "notification"

\* the upsert with the insert of a new Job left out
JobsAfterAdd_NoInsert(js, entry) ==
    IF entry.job_id = NoJob \/ entry.job_id \notin DOMAIN js THEN js
    ELSE [js EXCEPT ![entry.job_id].status = _map_job_status(entry.status)]

\* add(): the Job upsert (jobs is keyed by id)
JobsAfterAdd(js, entry) ==
    IF entry.job_id = NoJob THEN js
    ELSE IF entry.job_id \notin DOMAIN js
    THEN [id \in DOMAIN js \cup {entry.job_id} |->
            IF id = entry.job_id
            THEN [name |-> OrElse(entry.job_name, entry.channel),
                  queue_name |-> entry.queue_name,
                  status |-> _map_job_status(entry.status)]
            ELSE js[id]]
    ELSE [js EXCEPT ![entry.job_id] =
            [name |-> OrElse(entry.job_name, @.name),
             queue_name |-> OrElse(entry.queue_name, @.queue_name),
             status |-> _map_job_status(entry.status)]]

\* add() that files the new row before the rows already stored
NotificationsAfterAdd_Prepend(ns, entry) ==
    << [id |-> Len(ns) + 1,
        channel |-> entry.channel, adapter |-> entry.adapter,
        subject |-> entry.subject, status |-> entry.status,
        error |-> entry.error, job_id |-> entry.job_id,
        sent_at |-> IF entry.status = "sent" THEN "now" ELSE NoneV,
        row |-> entry.row, act |-> entry.act, by |-> entry.by] >> \o ns

\* add() that rewrites the row already stored for the entry's job
NotificationsAfterAdd_Upsert(ns, entry) ==
    IF entry.job_id # NoJob /\ \E k \in 1..Len(ns) : ns[k].job_id = entry.job_id
    THEN [k \in 1..Len(ns) |->
            IF ns[k].job_id = entry.job_id
            THEN [ns[k] EXCEPT !.status = entry.status, !.error = entry.error,
                               !.by = entry.by]
            ELSE ns[k]]
    ELSE Append(ns, [id |-> Len(ns) + 1,
                     channel |-> entry.channel, adapter |-> entry.adapter,
                     subject |-> entry.subject, status |-> entry.status,
                     error |-> entry.error, job_id |-> entry.job_id,
                     sent_at |-> IF entry.status = "sent" THEN "now" ELSE NoneV,
                     row |-> entry.row, act |-> entry.act, by |-> entry.by])

\* add(): the Notification row
NotificationsAfterAdd(ns, entry) ==
    Append(ns, [id |-> Len(ns) + 1,
                channel |-> entry.channel, adapter |-> entry.adapter,
                subject |-> entry.subject, status |-> entry.status,
                error |-> entry.error, job_id |-> entry.job_id,
                sent_at |-> IF entry.status = "sent" THEN "now" ELSE NoneV,
                row |-> entry.row, act |-> entry.act, by |-> entry.by])

\* add(): the JobEvent, only when a Job was upserted
EventsAfterAdd(es, entry) ==
    IF entry.job_id = NoJob THEN es
    ELSE Append(es, [job_id |-> entry.job_id,
                     event_type |-> EventType(entry.status),
                     message |-> OrElse(entry.error, entry.subject)])


\* ----------------------------------------------------------------- state
VARIABLES
    dry_run,        \* dispatch(dry_run=...)
    hasQueue,       \* self._queue is not None
    hasRepo,        \* self._audit_repository is not None
    adapters,       \* keys of self._adapters
    quiet_hours,    \* self._scheduler.quiet_hours
    now,            \* the instant self._now() returns during the run
    actions,        \* the actions list of the run
    pc,             \* where dispatch() is: "rows", "actions", "queued_audit",
                    \* "done" (returned summary), "raised" (left by exception)
    i,              \* rows taken from evaluated_rows so far
    item,           \* the current row
    j,              \* index of the action at hand
    cur_job,        \* job_id of the pair between enqueue and its audit
    summary,        \* channel -> stats
    run_exc,        \* exception that left dispatch(), or NoneV
    next_id,        \* uuid4 source: the next unused job id
    queue_calls,    \* queue.enqueue calls, in order
    pending,        \* the queue: indices into queue_calls, oldest first
    deliveries,     \* job ids workers have executed, in order
    adapter_calls,  \* adapter invocations by the dispatcher and by workers
    notifications,  \* audit rows (table notifications)
    jobs,           \* table jobs, keyed by id
    job_events,     \* table job_events
    last,           \* the row x action pair handled last and what happened
    allowed,        \* what QuietHours.allows(now) returned, once asked
    sheet,          \* rows of the playbook's source workbook
    evaluated_rows, \* list(self._evaluate_rows(playbook)) as it is built
    headers,        \* dataframe.columns of the uploaded workbook
    mapping,        \* mapping["columns"]: field -> ColumnConfig
    workbook,       \* the raw rows of the uploaded workbook
    run,            \* which ingest_workbook call this is
    ipc,            \* where ingest_workbook is: parse, rows, returned, raised
    done_rows,      \* rows of the workbook already ingested
    db,             \* the committed tables
    session,        \* the tables as the open Session sees them, and its
                    \* added-but-unflushed enrollments
    stats,          \* LoaderStats of the run
    parsed,         \* the ImportSummary parse_xlsx returned
    calls           \* the add() calls in progress, each in its own Session

config == << dry_run, hasQueue, hasRepo, adapters, quiet_hours, now, actions >>
store == << notifications, jobs, job_events >>
vars == << dry_run, hasQueue, hasRepo, adapters, quiet_hours, now, actions,
           pc, i, item, j, cur_job, summary, run_exc, next_id, queue_calls,
           pending, deliveries, adapter_calls, notifications, jobs, job_events,
           last, allowed, sheet, evaluated_rows, headers, mapping, workbook,
           run, ipc, done_rows, db, session, stats, parsed, calls >>

\* state of WorkflowRunner.run before dispatch() starts
runner == << sheet, evaluated_rows >>
\* what a dispatch() run and the audit store leave alone
\* state of ingest_workbook and of the database it writes
ingest == << headers, mapping, workbook, run, ipc, done_rows, db, session,
            stats, parsed >>
aside == << allowed, runner, ingest, calls >>

\* no workflow run is in progress
IdleRunner == sheet = << >> /\ evaluated_rows = << >>

\* LoaderStats()
LoaderStats ==
    [courses_created |-> 0, courses_updated |-> 0, students_created |-> 0,
     students_updated |-> 0, enrollments_created |-> 0,
     enrollments_updated |-> 0]

\* empty tables
EmptyDb == [courses |-> << >>, students |-> << >>, enrollments |-> << >>]

\* a Session opened on the committed tables d
SessionOn(d) ==
    [courses |-> d.courses, students |-> d.students,
     enrollments |-> d.enrollments, pending |-> << >>]

\* no upload is in progress
IdleIngest ==
    /\ headers = {}
    /\ mapping = << >>
    /\ workbook = << >>
    /\ run = 0
    /\ ipc = "idle"
    /\ done_rows = 0
    /\ db = EmptyDb
    /\ session = SessionOn(EmptyDb)
    /\ stats = LoaderStats
    /\ parsed = [missing_columns |-> << >>, errors |-> << >>]

NoItem == [canal |-> "", debe_notificar |-> FALSE]
NoOutcome == [kind |-> NoneV, value |-> NoneV, exc |-> NoneV, msg |-> NoneV]
ZeroStats == [matches |-> 0, enqueued |-> 0, skipped_quiet_hours |-> 0, errors |-> 0]
EmptyMap == [x \in {} |-> 0]

\* the pair (row, act) took `path` on `channel`; outcome is what the adapter
\* did when it was invoked
Pair(row, act, path, ch, outcome) ==
    [row |-> row, act |-> act, path |-> path, channel |-> ch, outcome |-> outcome]

Init ==
    /\ dry_run \in BOOLEAN
    /\ hasQueue \in BOOLEAN
    /\ hasRepo \in BOOLEAN
    /\ adapters \in AdapterConfigs
    /\ quiet_hours \in QuietConfigs
    /\ now \in Clock
    /\ ~quiet_hours.set => now = Time(10, 0)
    /\ actions \in ActionLists
    /\ pc = "rows"
    /\ i = 0
    /\ item = NoItem
    /\ j = 1
    /\ cur_job = NoJob
    /\ summary = EmptyMap
    /\ run_exc = NoneV
    /\ next_id = 1
    /\ queue_calls = << >>
    /\ pending = << >>
    /\ deliveries = << >>
    /\ adapter_calls = [dispatcher |-> 0, worker |-> 0]
    /\ notifications = << >>
    /\ jobs = EmptyMap
    /\ job_events = << >>
    /\ last = Pair(0, 0, NoneV, NoneV, NoOutcome)
    /\ allowed = << >>
    /\ IdleRunner
    /\ IdleIngest
    /\ calls = << >>

\* SQLANotificationRepository.add(entry) for each entry of es (none or one)
RepoAdd(es) ==
    IF es = << >>
    THEN UNCHANGED store
    ELSE /\ jobs' = JobsAfterAdd(jobs, es[1])
         /\ notifications' = NotificationsAfterAdd(notifications, es[1])
         /\ job_events' = EventsAfterAdd(job_events, es[1])

\* _record_audit with the test for a missing repository inverted
_record_audit_Inverted(es) ==
    IF hasRepo THEN UNCHANGED store ELSE RepoAdd(es)

\* _record_audit(entry): a no-op without an audit repository
_record_audit(es) ==
    IF hasRepo THEN RepoAdd(es) ELSE UNCHANGED store

\* summary.setdefault(channel, zeros), then stats["matches"] += 1 and
\* stats[field] += 1 (field = "matches" counts the match only)
Bump(ch, field) ==
    LET base == [c \in DOMAIN summary \cup {ch} |->
                    IF c \in DOMAIN summary THEN summary[c] ELSE ZeroStats]
        m == [base EXCEPT ![ch].matches = @ + 1]
    IN  IF field = "matches" THEN m
        ELSE [m EXCEPT ![ch][field] = @ + 1]

\* the inline path with errors += 1 missing from the except clause
InlineField_ForgetsErrors(d) ==
    IF d.status = "sent" THEN "enqueued" ELSE "matches"

\* the statistic the inline path counts for what deliver() did: the except
\* clause, then the test of result["status"]
InlineField(d) ==
    IF d.raised \in {"AdapterNotFoundError", "NotificationDeliveryError"}
    THEN "errors"
    ELSE IF d.status = "sent" THEN "enqueued"
    ELSE IF d.status = "error" THEN "errors"
    ELSE "matches"

\* an except clause that names AdapterNotFoundError only
Caught_AdapterNotFoundOnly(exc) == exc = "AdapterNotFoundError"

\* exceptions of deliver() the inline path catches
Caught(exc) == exc \in {"AdapterNotFoundError", "NotificationDeliveryError"}

\* the dry-run audit of a missing adapter without its error text
MissingAdapterMessage_None == NoneV

\* error text of the dry-run audit of a channel without adapter
MissingAdapterMessage == "adaptador no configurado"

\* the inner loop moves to the next action, or back to the row loop
Advance ==
    IF j < Len(actions)
    THEN j' = j + 1 /\ pc' = "actions"
    ELSE j' = 1 /\ pc' = "rows"

\* the type test and the guard letting every action through
Matched_Always == TRUE

\* the action at hand passes the type test and its guard
Matched ==
    /\ Lower(actions[j].type) = "notify"
    /\ _should_dispatch(actions[j].when, item)

\* the action handed on without rendering its templates
rendered_action_Raw == [type |-> actions[j].type, channel |-> actions[j].channel]

rendered_action == _render_action(actions[j], item)
channel == Lower(rendered_action.channel)

\* the quiet-hours test never suppressing anything
Quiet_Never == FALSE

\* quiet-hours test of dispatch(): a window is configured and does not
\* allow the current instant
Quiet == quiet_hours.set /\ ~allows(quiet_hours, now)

\* the queue test with no queue ever seen
QueueInjected_Never == FALSE

\* `self._queue is None` is false: the matched action goes to the queue
QueueInjected == hasQueue

\* for item in evaluated_rows: the iterable yields another row
NextRow ==
    /\ pc = "rows"
    /\ i < MaxRows
    /\ \E r \in RowKinds : item' = r
    /\ i' = i + 1
    /\ j' = 1
    /\ pc' = "actions"
    /\ UNCHANGED << config, aside, cur_job, summary, run_exc, next_id, queue_calls,
                    pending, deliveries, adapter_calls, store, last >>

\* the iterable is exhausted: return summary
Finish ==
    /\ pc = "rows"
    /\ pc' = "done"
    /\ UNCHANGED << config, aside, i, item, j, cur_job, summary, run_exc, next_id,
                    queue_calls, pending, deliveries, adapter_calls, store,
                    last >>

\* type != "notify" or the guard is false: continue
Skip ==
    /\ pc = "actions"
    /\ ~Matched
    /\ Advance
    /\ last' = Pair(i, j, "skip", NoneV, NoOutcome)
    /\ UNCHANGED << config, aside, i, item, cur_job, summary, run_exc, next_id,
                    queue_calls, pending, deliveries, adapter_calls, store >>

\* dry_run: _record_dry_run(playbook, rendered_action, item)
DryRun ==
    /\ pc = "actions"
    /\ Matched
    /\ dry_run
    /\ summary' = Bump(channel, "matches")
    /\ IF ~hasRepo
       THEN UNCHANGED << next_id, store >>
       ELSE LET d == deliver(adapters, hasQueue, rendered_action, TRUE, NoJob,
                             NoneV, NoneV, next_id, NoOutcome, i, j,
                             "dispatcher")
            IN  IF d.raised = "AdapterNotFoundError"
                THEN /\ _record_audit(<< Entry(channel,
                                _adapter_label(adapters, channel), "dry_run",
                                MissingAdapterMessage, NoJob, NoneV,
                                NoneV, i, j, "dispatcher") >>)
                     /\ UNCHANGED next_id
                ELSE /\ _record_audit(d.audits)
                     /\ next_id' = IF d.fresh THEN next_id + 1 ELSE next_id
    /\ Advance
    /\ last' = Pair(i, j, "dry_run", channel, NoOutcome)
    /\ UNCHANGED << config, aside, i, item, cur_job, run_exc, queue_calls,
                    pending, deliveries, adapter_calls >>

\* live, inside the quiet window: count and audit, no delivery
QuietSkip ==
    /\ pc = "actions"
    /\ Matched
    /\ ~dry_run
    /\ Quiet
    /\ summary' = Bump(channel, "skipped_quiet_hours")
    /\ _record_audit(<< Entry(channel, _adapter_label(adapters, channel),
                              "quiet_hours", NoneV, NoJob, NoneV, NoneV,
                              i, j, "dispatcher") >>)
    /\ Advance
    /\ last' = Pair(i, j, "quiet_hours", channel, NoOutcome)
    /\ UNCHANGED << config, aside, i, item, cur_job, run_exc, next_id, queue_calls,
                    pending, deliveries, adapter_calls >>

\* live, no queue: deliver() synchronously
InlineDeliver ==
    /\ pc = "actions"
    /\ Matched
    /\ ~dry_run
    /\ ~Quiet
    /\ ~QueueInjected
    /\ \E outcome \in AdapterOutcomes :
         LET d == deliver(adapters, hasQueue, rendered_action, FALSE, next_id,
                          JobName, _queue_label(hasQueue), next_id + 1,
                          outcome, i, j, "dispatcher")
         IN  /\ adapter_calls' = IF d.called
                                 THEN [adapter_calls EXCEPT !.dispatcher = @ + 1]
                                 ELSE adapter_calls
             /\ _record_audit(d.audits)
             /\ summary' = Bump(channel, InlineField(d))
             /\ last' = Pair(i, j, "inline", channel,
                             IF d.called THEN outcome ELSE NoOutcome)
             /\ IF d.raised # NoneV /\ ~Caught(d.raised)
                THEN /\ pc' = "raised"
                     /\ run_exc' = d.raised
                     /\ UNCHANGED j
                ELSE /\ Advance
                     /\ UNCHANGED run_exc
    /\ next_id' = next_id + 1
    /\ UNCHANGED << config, aside, i, item, cur_job, queue_calls, pending, deliveries >>

\* live, queue configured: queue.enqueue(job_name, kwargs=payload, job_id)
Enqueue ==
    /\ pc = "actions"
    /\ Matched
    /\ ~dry_run
    /\ ~Quiet
    /\ QueueInjected
    /\ summary' = Bump(channel, "matches")
    /\ queue_calls' = Append(queue_calls,
            [job_name |-> JobName, job_id |-> next_id,
             action |-> rendered_action, item |-> item,
             row |-> i, act |-> j])
    /\ pending' = Append(pending, Len(queue_calls) + 1)
    /\ cur_job' = next_id
    /\ next_id' = next_id + 1
    /\ pc' = "queued_audit"
    /\ last' = Pair(i, j, "enqueue", channel, NoOutcome)
    /\ UNCHANGED << config, aside, i, item, j, run_exc, deliveries, adapter_calls,
                    store >>

\* ... then the queued audit and stats["enqueued"] += 1
RecordQueued ==
    /\ pc = "queued_audit"
    /\ _record_audit(<< Entry(channel, _adapter_label(adapters, channel),
                              "queued", NoneV, cur_job, JobName,
                              _queue_label(hasQueue), i, j, "dispatcher") >>)
    /\ summary' = [summary EXCEPT ![channel].enqueued = @ + 1]
    /\ cur_job' = NoJob
    /\ Advance
    /\ last' = Pair(i, j, "queued", channel, NoOutcome)
    /\ UNCHANGED << config, aside, i, item, run_exc, next_id, queue_calls,
                    pending, deliveries, adapter_calls >>

\* a worker takes the oldest job and runs worker.dispatch(**kwargs); a job
\* whose execution raised may be put back on the queue (retry)
WorkerDispatch ==
    /\ pending # << >>
    /\ Len(deliveries) < MaxDeliveries
    /\ \E outcome \in AdapterOutcomes, retry \in BOOLEAN :
         LET call == queue_calls[Head(pending)]
             d == deliver(WorkerAdapters, FALSE, call.action, FALSE,
                          call.job_id, JobName, QueueName, NoJob, outcome,
                          call.row, call.act, "worker")
         IN  /\ adapter_calls' = IF d.called
                                 THEN [adapter_calls EXCEPT !.worker = @ + 1]
                                 ELSE adapter_calls
             /\ RepoAdd(d.audits)
             /\ deliveries' = Append(deliveries, call.job_id)
             /\ pending' = IF retry /\ d.raised # NoneV
                           THEN Append(Tail(pending), Head(pending))
                           ELSE Tail(pending)
    /\ UNCHANGED << config, aside, pc, i, item, j, cur_job, summary, run_exc,
                    next_id, queue_calls, last >>

\* one dispatch() run
Next ==
    \/ NextRow
    \/ Finish
    \/ Skip
    \/ DryRun
    \/ QuietSkip
    \/ InlineDeliver
    \/ Enqueue
    \/ RecordQueued

Spec == Init /\ [][Next]_vars

\* a live run that hands its jobs to the queue, with workers running
\* concurrently on the same audit store; the playbook has the guarded
\* notify action, whose channel comes from the row, and a log action
InitWorkers ==
    /\ Init
    /\ ~dry_run
    /\ hasQueue
    /\ ~quiet_hours.set
    /\ adapters = {"email"}
    /\ actions[1].when # NoneV
    /\ actions[Len(actions)].type = "log"

NextWorkers ==
    \/ NextRow
    \/ Finish
    \/ Skip
    \/ Enqueue
    \/ RecordQueued
    \/ WorkerDispatch

SpecWorkers == InitWorkers /\ [][NextWorkers]_vars

\* ---------------------------------------------------- the audit store alone
\* add() called with arbitrary entries, in any order
MaxAdds == 3

RepoEntries ==
    { Entry("email", "EmailSMTPAdapter", st, err, id,
            IF id = NoJob THEN NoneV ELSE JobName,
            IF id = NoJob THEN NoneV ELSE QueueName, 0, 0, "caller") :
        st \in {"queued", "dry_run", "quiet_hours", "sent"},
        err \in {NoneV}, id \in {NoJob, 1, 2} }
    \cup
    { Entry("email", "EmailSMTPAdapter", "error", err, id,
            IF id = NoJob THEN NoneV ELSE JobName,
            IF id = NoJob THEN NoneV ELSE QueueName, 0, 0, "caller") :
        err \in {"boom", ""}, id \in {NoJob, 1, 2} }

InitRepo ==
    /\ Init
    /\ ~dry_run
    /\ ~hasQueue
    /\ hasRepo
    /\ adapters = {}
    /\ ~quiet_hours.set
    /\ actions = CHOOSE l \in ActionLists : TRUE

Add ==
    /\ Len(notifications) < MaxAdds
    /\ \E entry \in RepoEntries : RepoAdd(<< entry >>)
    /\ UNCHANGED << config, aside, pc, i, item, j, cur_job, summary, run_exc,
                    next_id, queue_calls, pending, deliveries, adapter_calls,
                    last >>

NextRepo == Add

SpecRepo == InitRepo /\ [][NextRepo]_vars

\* ------------------------------------------------- QuietHours on its own
\* the minutes of a day, now.time()
DayMinutes == Time(0, 0)..Time(23, 59)

\* window bounds: midnight, 07:59, 08:00, noon, 21:00 and 23:59
WindowTimes ==
    { Time(0, 0), Time(7, 59), Time(8, 0), Time(12, 0), Time(21, 0),
      Time(23, 59) }

\* QuietHours(start, end) as the dispatcher holds it
Window(start, end) == [set |-> TRUE, start |-> start, end |-> end]

InitQuiet ==
    /\ dry_run = FALSE
    /\ hasQueue = FALSE
    /\ hasRepo = FALSE
    /\ adapters = {}
    /\ quiet_hours \in { Window(a, b) : a \in WindowTimes, b \in WindowTimes }
    /\ now \in DayMinutes
    /\ actions = CHOOSE l \in ActionLists : TRUE
    /\ pc = "rows"
    /\ i = 0
    /\ item = NoItem
    /\ j = 1
    /\ cur_job = NoJob
    /\ summary = EmptyMap
    /\ run_exc = NoneV
    /\ next_id = 1
    /\ queue_calls = << >>
    /\ pending = << >>
    /\ deliveries = << >>
    /\ adapter_calls = [dispatcher |-> 0, worker |-> 0]
    /\ notifications = << >>
    /\ jobs = EmptyMap
    /\ job_events = << >>
    /\ last = Pair(0, 0, NoneV, NoneV, NoOutcome)
    /\ allowed = << >>
    /\ IdleRunner
    /\ IdleIngest
    /\ calls = << >>

\* quiet_hours.allows(now) is called and returns
Allows ==
    /\ allowed = << >>
    /\ allowed' = << allows(quiet_hours, now) >>
    /\ UNCHANGED << dry_run, hasQueue, hasRepo, adapters, quiet_hours, now,
                    actions, pc, i, item, j, cur_job, summary, run_exc,
                    next_id, queue_calls, pending, deliveries, adapter_calls,
                    store, last, runner, ingest, calls >>

NextQuiet == Allows

SpecQuiet == InitQuiet /\ [][NextQuiet]_vars

\* ------------------------------------------------------ WorkflowRunner.run
\* rows of the source workbook a playbook run reads at most
MaxSheetRows == 2

\* a sheet row: the email cell, the channel column and the certificate date
\* the rule reads (NoneV is an empty cell)
SheetRows ==
    [email : {"", "ana@ex"}, canal : {"email"}, certificate : {"soon", "far", NoneV}]

\* the workbooks
Sheets ==
    UNION { [1..n -> SheetRows] : n \in 0..MaxSheetRows }

\* RuleSet.evaluate({"row": row}) for the rule
\*   debe_notificar: days_until(parse_date(row['certificate'])) <= 30
\* which raises on an empty cell
RuleSetEvaluate(row) ==
    IF row.certificate = NoneV
    THEN [raised |-> "RuleEvaluationError", debe_notificar |-> FALSE]
    ELSE [raised |-> NoneV, debe_notificar |-> row.certificate = "soon"]

\* the runner handing over rows as soon as one is evaluated
AllRowsEvaluated_Lazy == Len(evaluated_rows) >= 1

\* list(...) has consumed the whole generator
AllRowsEvaluated == Len(evaluated_rows) = Len(sheet)

\* quiet windows of the playbooks: none, or one with start == end
RunnerQuietConfigs ==
    { [set |-> FALSE, start |-> 0, end |-> 0], Window(Time(8, 0), Time(8, 0)) }

InitRunner ==
    /\ dry_run \in BOOLEAN
    /\ hasQueue \in BOOLEAN
    /\ hasRepo \in BOOLEAN
    /\ adapters = {"email"}
    /\ quiet_hours \in RunnerQuietConfigs
    /\ now \in Clock
    /\ actions = << [type |-> "notify", channel |-> "{{ row.canal }}",
                     when |-> "{{ rule_results.debe_notificar }}"],
                    [type |-> "Notify", channel |-> "Email", when |-> NoneV] >>
    /\ pc = "evaluate"
    /\ i = 0
    /\ item = NoItem
    /\ j = 1
    /\ cur_job = NoJob
    /\ summary = EmptyMap
    /\ run_exc = NoneV
    /\ next_id = 1
    /\ queue_calls = << >>
    /\ pending = << >>
    /\ deliveries = << >>
    /\ adapter_calls = [dispatcher |-> 0, worker |-> 0]
    /\ notifications = << >>
    /\ jobs = EmptyMap
    /\ job_events = << >>
    /\ last = Pair(0, 0, NoneV, NoneV, NoOutcome)
    /\ allowed = << >>
    /\ sheet \in Sheets
    /\ evaluated_rows = << >>
    /\ IdleIngest
    /\ calls = << >>

\* _evaluate_rows: normalize the next row and evaluate the rules on it; a
\* RuleEvaluationError leaves run()
EvaluateRow ==
    /\ pc = "evaluate"
    /\ Len(evaluated_rows) < Len(sheet)
    /\ LET src == Len(evaluated_rows) + 1
            rule_results == RuleSetEvaluate(sheet[src])
       IN  IF rule_results.raised # NoneV
           THEN /\ pc' = "raised"
                /\ run_exc' = rule_results.raised
                /\ UNCHANGED evaluated_rows
           ELSE /\ evaluated_rows' = Append(evaluated_rows,
                      [src |-> src,
                       item |-> [canal |-> sheet[src].canal,
                                 debe_notificar |-> rule_results.debe_notificar]])
                /\ UNCHANGED << pc, run_exc >>
    /\ UNCHANGED << config, allowed, sheet, ingest, calls, i, item, j, cur_job,
                    summary, next_id, queue_calls, pending, deliveries,
                    adapter_calls, store, last >>

\* dispatcher = self._dispatcher_factory(playbook); dispatcher.dispatch(...)
StartDispatch ==
    /\ pc = "evaluate"
    /\ AllRowsEvaluated
    /\ pc' = "rows"
    /\ UNCHANGED << config, aside, i, item, j, cur_job, summary, run_exc,
                    next_id, queue_calls, pending, deliveries, adapter_calls,
                    store, last >>

\* for item in evaluated_rows: the next row of the list
NextEvaluatedRow ==
    /\ pc = "rows"
    /\ i < Len(evaluated_rows)
    /\ item' = evaluated_rows[i + 1].item
    /\ i' = i + 1
    /\ j' = 1
    /\ pc' = "actions"
    /\ UNCHANGED << config, aside, cur_job, summary, run_exc, next_id,
                    queue_calls, pending, deliveries, adapter_calls, store,
                    last >>

\* the list is exhausted: dispatch() returns and run() builds its result
FinishRun ==
    /\ pc = "rows"
    /\ i = Len(evaluated_rows)
    /\ pc' = "done"
    /\ UNCHANGED << config, aside, i, item, j, cur_job, summary, run_exc,
                    next_id, queue_calls, pending, deliveries, adapter_calls,
                    store, last >>

NextRunner ==
    \/ EvaluateRow
    \/ StartDispatch
    \/ NextEvaluatedRow
    \/ FinishRun
    \/ Skip
    \/ DryRun
    \/ QuietSkip
    \/ InlineDeliver
    \/ Enqueue
    \/ RecordQueued

SpecRunner == InitRunner /\ [][NextRunner]_vars

\* --------------------------------------------------------- ingest_workbook
\* rows of an uploaded workbook at most
MaxBookRows == 2

\* consecutive ingest_workbook calls on the same workbook at most
MaxRuns == 2

\* the columns a workbook may carry
Columns == {"Email", "Correo", "Curso"}

\* a raw row: its cells, " " being a cell of blanks; a column the workbook
\* does not carry is not read from the record
RawRows == [Email : {" ", "ana", "juan"}, Correo : {" "}, Curso : {" ", "A", "B"}]

\* the workbooks
Workbooks ==
    UNION { [1..n -> RawRows] : n \in 0..MaxBookRows }

\* ColumnConfig(sources, required)
ColumnConfig(sources, required) == [sources |-> sources, required |-> required]

\* mappings: every field with one required column, and an email with two
\* candidate columns next to an optional course name
Mappings ==
    { [email |-> ColumnConfig(<< "Email" >>, TRUE),
       course_name |-> ColumnConfig(<< "Curso" >>, TRUE)],
      [email |-> ColumnConfig(<< "Email", "Correo" >>, TRUE),
       course_name |-> ColumnConfig(<< "Curso" >>, FALSE)] }

\* the fields of a mapping, in the order of column_configs.values()
Fields == << "email", "course_name" >>

\* the tables after an earlier upload of ana enrolled in course A
SeededDb ==
    [courses |-> << "A" >>,
     students |-> << [email |-> "ana", course |-> "A"] >>,
     enrollments |-> << [student_id |-> 1, course_id |-> 1] >>]

\* str.strip()
Strip(value) == IF value = " " THEN "" ELSE value

\* required_sources: the sources of every required config, in order
RECURSIVE required_sources(_, _)
required_sources(m, k) ==
    IF k > Len(Fields) THEN << >>
    ELSE (IF m[Fields[k]].required THEN m[Fields[k]].sources ELSE << >>)
         \o required_sources(m, k + 1)

\* missing_columns: the required sources the dataframe does not carry
missing_columns(m, h) ==
    SelectSeq(required_sources(m, 1), LAMBDA column : column \notin h)

\* parse_xlsx: the ImportSummary of a readable workbook
parse_xlsx(m, h) ==
    [missing_columns |-> missing_columns(m, h),
     errors |-> IF missing_columns(m, h) # << >>
                THEN << "Columnas faltantes" >> ELSE << >>]

\* a summary that never reports itself invalid
is_valid_Always(s) == TRUE

\* ImportSummary.is_valid
is_valid(s) == s.errors = << >>

\* get_value: the stripped cell of the first source that carries a value
RECURSIVE get_value(_, _, _, _)
get_value(raw_row, sources, h, k) ==
    IF k > Len(sources) THEN NoneV
    ELSE IF sources[k] \in h /\ Strip(raw_row[sources[k]]) # ""
         THEN Strip(raw_row[sources[k]])
         ELSE get_value(raw_row, sources, h, k + 1)

\* _normalize_row: the fields the loader reads
_normalize_row(raw_row, m, h) ==
    [email |-> get_value(raw_row, m.email.sources, h, 1),
     course_name |-> get_value(raw_row, m.course_name.sources, h, 1)]

\* db.flush(): the added objects reach the tables
Flush(s) == [s EXCEPT !.enrollments = s.enrollments \o s.pending, !.pending = << >>]

\* _get_or_create_course: session, stats and course id after the call
_get_or_create_course(s, st, normalized) ==
    LET name == IF normalized.course_name = NoneV
                THEN "Curso sin nombre" ELSE normalized.course_name
        found == { k \in 1..Len(s.courses) : s.courses[k] = name }
    IN  IF found = {}
        THEN [s |-> Flush([s EXCEPT !.courses = Append(s.courses, name)]),
              st |-> [st EXCEPT !.courses_created = @ + 1],
              id |-> Len(s.courses) + 1, name |-> name, raised |-> NoneV]
        ELSE IF Cardinality(found) > 1
        THEN [s |-> s, st |-> st, id |-> 0, name |-> name,
              raised |-> "MultipleResultsFound"]
        ELSE [s |-> s, st |-> st, id |-> CHOOSE k \in found : TRUE,
              name |-> name, raised |-> NoneV]

\* _get_or_create_student: created with the row's course, or its course
\* column overwritten with the row's course
_get_or_create_student(s, st, normalized, course_name) ==
    LET found == { k \in 1..Len(s.students) : s.students[k].email = normalized.email }
    IN  IF found = {}
        THEN [s |-> Flush([s EXCEPT !.students = Append(s.students,
                        [email |-> normalized.email, course |-> course_name])]),
              st |-> [st EXCEPT !.students_created = @ + 1],
              id |-> Len(s.students) + 1, raised |-> NoneV]
        ELSE IF Cardinality(found) > 1
        THEN [s |-> s, st |-> st, id |-> 0, raised |-> "MultipleResultsFound"]
        ELSE LET id == CHOOSE k \in found : TRUE
             IN  IF s.students[id].course # course_name
                 THEN [s |-> [s EXCEPT !.students[id].course = course_name],
                       st |-> [st EXCEPT !.students_updated = @ + 1],
                       id |-> id, raised |-> NoneV]
                 ELSE [s |-> s, st |-> st, id |-> id, raised |-> NoneV]

\* _get_or_create_enrollment: the select reads the tables, not the objects
\* added since the last flush; a new enrollment is added and not flushed
_get_or_create_enrollment(s, st, student_id, course_id) ==
    LET found == { k \in 1..Len(s.enrollments) :
                     /\ s.enrollments[k].student_id = student_id
                     /\ s.enrollments[k].course_id = course_id }
    IN  IF found = {}
        THEN [s |-> [s EXCEPT !.pending = Append(s.pending,
                        [student_id |-> student_id, course_id |-> course_id])],
              st |-> [st EXCEPT !.enrollments_created = @ + 1],
              raised |-> NoneV]
        ELSE IF Cardinality(found) > 1
        THEN [s |-> s, st |-> st, raised |-> "MultipleResultsFound"]
        ELSE [s |-> s, st |-> st, raised |-> NoneV]

\* the dispatcher and the audit store while an upload is handled
IdleDispatch ==
    /\ dry_run = FALSE
    /\ hasQueue = FALSE
    /\ hasRepo = TRUE
    /\ adapters = {}
    /\ quiet_hours = [set |-> FALSE, start |-> 0, end |-> 0]
    /\ now = Time(10, 0)
    /\ actions = CHOOSE l \in ActionLists : TRUE
    /\ pc = "rows"
    /\ i = 0
    /\ item = NoItem
    /\ j = 1
    /\ cur_job = NoJob
    /\ summary = EmptyMap
    /\ run_exc = NoneV
    /\ next_id = 1
    /\ queue_calls = << >>
    /\ pending = << >>
    /\ deliveries = << >>
    /\ adapter_calls = [dispatcher |-> 0, worker |-> 0]
    /\ notifications = << >>
    /\ jobs = EmptyMap
    /\ job_events = << >>
    /\ last = Pair(0, 0, NoneV, NoneV, NoOutcome)
    /\ allowed = << >>
    /\ IdleRunner

\* what an upload leaves alone
beside ==
    << config, allowed, runner, calls, pc, i, item, j, cur_job, summary,
       run_exc, next_id, queue_calls, pending, deliveries, adapter_calls,
       store, last >>

InitIngest ==
    /\ IdleDispatch
    /\ headers \in SUBSET Columns
    /\ mapping \in Mappings
    /\ workbook \in Workbooks
    /\ run = 1
    /\ ipc = "parse"
    /\ done_rows = 0
    /\ db \in {EmptyDb, SeededDb}
    /\ session = SessionOn(db)
    /\ stats = LoaderStats
    /\ parsed = [missing_columns |-> << >>, errors |-> << >>]
    /\ calls = << >>

\* summary = parse_xlsx(...); if not summary.is_valid: return
ParseXlsx ==
    /\ ipc = "parse"
    /\ parsed' = parse_xlsx(mapping, headers)
    /\ ipc' = IF is_valid(parsed') THEN "rows" ELSE "returned"
    /\ UNCHANGED << beside, headers, mapping, workbook, run, done_rows, db,
                    session, stats >>

\* one turn of the loop over the normalized rows
IngestRow ==
    /\ ipc = "rows"
    /\ done_rows < Len(workbook)
    /\ done_rows' = done_rows + 1
    /\ LET normalized == _normalize_row(workbook[done_rows + 1], mapping, headers)
           c == _get_or_create_course(session, stats, normalized)
           x == _get_or_create_student(c.s, c.st, normalized, c.name)
           e == _get_or_create_enrollment(x.s, x.st, x.id, c.id)
       IN  IF normalized.email = NoneV
           THEN UNCHANGED << ipc, session, stats >>
           ELSE IF c.raised # NoneV
           THEN /\ ipc' = "raised"
                /\ session' = SessionOn(db)
                /\ stats' = c.st
           ELSE IF x.raised # NoneV
           THEN /\ ipc' = "raised"
                /\ session' = SessionOn(db)
                /\ stats' = x.st
           ELSE IF e.raised # NoneV
           THEN /\ ipc' = "raised"
                /\ session' = SessionOn(db)
                /\ stats' = e.st
           ELSE /\ ipc' = "rows"
                /\ session' = e.s
                /\ stats' = e.st
    /\ UNCHANGED << beside, headers, mapping, workbook, run, db, parsed >>

\* db.commit(); return LoaderResult(summary, stats)
Commit ==
    /\ ipc = "rows"
    /\ done_rows = Len(workbook)
    /\ session' = Flush(session)
    /\ db' = [courses |-> session'.courses, students |-> session'.students,
              enrollments |-> session'.enrollments]
    /\ ipc' = "returned"
    /\ UNCHANGED << beside, headers, mapping, workbook, run, done_rows, stats,
                    parsed >>

\* the same workbook is uploaded again, in a new request and Session
IngestAgain ==
    /\ ipc \in {"returned", "raised"}
    /\ run < MaxRuns
    /\ run' = run + 1
    /\ ipc' = "parse"
    /\ done_rows' = 0
    /\ session' = SessionOn(db)
    /\ stats' = LoaderStats
    /\ UNCHANGED << beside, headers, mapping, workbook, db, parsed >>

NextIngest ==
    \/ ParseXlsx
    \/ IngestRow
    \/ Commit
    \/ IngestAgain

SpecIngest == InitIngest /\ [][NextIngest]_vars

\* ------------------------------------------------- concurrent add() calls
\* add() calls running at the same time at most
MaxCallers == 2

\* what the callers audit: the dispatcher's queued audit of a job and the
\* worker's audits of jobs, whose rows may or may not exist yet
RaceEntries(k) ==
    { Entry("email", "EmailSMTPAdapter", st, NoneV, id,
            IF id = NoJob THEN NoneV ELSE JobName,
            IF id = NoJob THEN NoneV ELSE QueueName, k, 0, "caller") :
        st \in {"queued", "sent"}, id \in {NoJob, 1, 2} }

\* a call that has not started
Begun(entry) == [entry |-> entry, at |-> "begin", found |-> FALSE]

InitRace ==
    /\ IdleDispatch
    /\ IdleIngest
    /\ calls \in { c \in [1..MaxCallers -> UNION { { Begun(e) : e \in RaceEntries(k) } : k \in 1..MaxCallers }] :
                     \A k \in 1..MaxCallers : c[k].entry.row = k }

\* another open transaction has written the Job row id and not committed
HeldByOther(k, id) ==
    \E o \in DOMAIN calls :
        o # k /\ calls[o].at = "flushed" /\ calls[o].entry.job_id = id

\* job_record = session.get(Job, entry.job_id): reads the committed rows
GetJob(k) ==
    /\ calls[k].at = "begin"
    /\ calls' = [calls EXCEPT ![k].at =
                    IF calls[k].entry.job_id = NoJob THEN "flushed" ELSE "got",
                 ![k].found = calls[k].entry.job_id \in DOMAIN jobs]
    /\ UNCHANGED << config, allowed, runner, ingest, pc, i, item, j, cur_job,
                    summary, run_exc, next_id, queue_calls, pending,
                    deliveries, adapter_calls, store, last >>

\* session.flush(): the INSERT or UPDATE of the Job row; it waits while
\* another transaction holds the row, and an INSERT of a key that has been
\* committed meanwhile raises IntegrityError, which leaves add()
FlushJob(k) ==
    /\ calls[k].at = "got"
    /\ ~HeldByOther(k, calls[k].entry.job_id)
    /\ calls' = [calls EXCEPT ![k].at =
                    IF ~calls[k].found /\ calls[k].entry.job_id \in DOMAIN jobs
                    THEN "raised" ELSE "flushed"]
    /\ UNCHANGED << config, allowed, runner, ingest, pc, i, item, j, cur_job,
                    summary, run_exc, next_id, queue_calls, pending,
                    deliveries, adapter_calls, store, last >>

\* session.commit(); session.refresh(record); return record
CommitAdd(k) ==
    /\ calls[k].at = "flushed"
    /\ RepoAdd(<< calls[k].entry >>)
    /\ calls' = [calls EXCEPT ![k].at = "returned"]
    /\ UNCHANGED << config, allowed, runner, ingest, pc, i, item, j, cur_job,
                    summary, run_exc, next_id, queue_calls, pending,
                    deliveries, adapter_calls, last >>

NextRace ==
    \/ \E k \in DOMAIN calls : GetJob(k)
    \/ \E k \in DOMAIN calls : FlushJob(k)
    \/ \E k \in DOMAIN calls : CommitAdd(k)

SpecRace == InitRace /\ [][NextRace]_vars

TypeOK ==
    /\ pc \in {"evaluate", "rows", "actions", "queued_audit", "done", "raised"}
    /\ i \in 0..MaxRows
    /\ j \in 1..Len(actions)


\* ============================================================== properties
RECURSIVE SumStats(_, _)
SumStats(S, field) ==
    IF S = {} THEN 0
    ELSE LET c == CHOOSE x \in S : TRUE
         IN  summary[c][field] + SumStats(S \ {c}, field)

\* a statistic summed over all channels of the summary
Total(field) == SumStats(DOMAIN summary, field)

\* a statistic of one channel in a summary, 0 when the channel has no entry
Stat(sm, ch, field) == IF ch \in DOMAIN sm THEN sm[ch][field] ELSE 0

\* indices of the audit rows with the given status
RowsWithStatus(st) ==
    { k \in 1..Len(notifications) : notifications[k].status = st }

\* the audit rows one step appends
NewRows == SubSeq(notifications', Len(notifications) + 1, Len(notifications'))

\* the dispatcher handled a pair in this step, on the given path
Handled(path) == last' # last /\ last'.path = path

\* the pair's channel has no adapter in the dispatcher's registry
NoAdapter(p) == p.channel \notin adapters

\* dispatch() goes on with the next pair
Continues == pc' \in {"actions", "rows"}

\* the sum identity of a summary
SumIdentity ==
    Total("matches") =
        Total("enqueued") + Total("skipped_quiet_hours") + Total("errors")
        + Cardinality(RowsWithStatus("dry_run"))

OneDryRunAuditPerMatch ==
    /\ Len(notifications) = Total("matches")
    /\ \A k \in 1..Len(notifications) : notifications[k].status = "dry_run"
    /\ \A k, l \in 1..Len(notifications) :
         (notifications[k].row = notifications[l].row
          /\ notifications[k].act = notifications[l].act) => k = l

\* C2 (as stated): in a dry run no adapter is invoked, queue.enqueue is
\* never called, and every matched action yields exactly one dry_run audit.
C2_Original ==
    dry_run => /\ adapter_calls.dispatcher = 0
               /\ queue_calls = << >>
               /\ OneDryRunAuditPerMatch

\* C2 (amended): in a dry run no adapter is invoked and queue.enqueue is
\* never called; with an audit repository every matched action yields
\* exactly one dry_run audit, without one no audit is written.
C2_DryRunIsSideEffectFree ==
    dry_run => /\ adapter_calls.dispatcher = 0
               /\ queue_calls = << >>
               /\ IF hasRepo THEN OneDryRunAuditPerMatch
                  ELSE notifications = << >>

C2_Witness ==
    /\ dry_run
    /\ hasRepo
    /\ hasQueue
    /\ adapters # {}
    /\ Total("matches") >= 2
    /\ \E k \in 1..Len(notifications) :
         notifications[k].error = MissingAdapterMessage

\* C3: every audit row with a job_id references an existing Job, and that
\* Job has at least one JobEvent.
C3_AuditsReferenceJobs ==
    \A k \in 1..Len(notifications) :
        notifications[k].job_id # NoJob =>
            /\ notifications[k].job_id \in DOMAIN jobs
            /\ \E e \in 1..Len(job_events) :
                 job_events[e].job_id = notifications[k].job_id

C3_Witness ==
    /\ Len(notifications) = 3
    /\ notifications[1].job_id # NoJob
    /\ notifications[2].job_id = notifications[1].job_id
    /\ notifications[3].job_id = NoJob


\* event types of the JobEvents that record a delivery's outcome
TerminalEvents == {"notification.sent", "notification.error"}

\* C4: with workers running concurrently with the dispatcher (which has an
\* audit repository), the queued audit of a job is persisted before any
\* sent or error audit carrying the same job_id.
C4_QueuedAuditFirst ==
    hasRepo =>
        \A n \in 1..Len(notifications) :
            (notifications[n].by = "worker"
             /\ notifications[n].status \in {"sent", "error"}) =>
                \E m \in 1..(n - 1) :
                    /\ notifications[m].status = "queued"
                    /\ notifications[m].job_id = notifications[n].job_id

\* terminal statuses of a Job
Terminal(status) == status \in {"succeeded", "failed"}

\* this step puts the Job into a terminal status it was not in before
EntersTerminal(id) ==
    /\ id \in DOMAIN jobs'
    /\ Terminal(jobs'[id].status)
    /\ (id \notin DOMAIN jobs \/ jobs[id].status # jobs'[id].status)

\* the Job has been in a terminal status before
WasTerminal(id) ==
    \E e \in 1..Len(job_events) :
        job_events[e].job_id = id /\ job_events[e].event_type \in TerminalEvents

\* C5: for each job_id the Job's status enters a terminal status (succeeded
\* or failed) at most once, also when the job is executed more than once.
C5_AtMostOneTerminalTransition ==
    [][\A id \in DOMAIN jobs' : EntersTerminal(id) => ~WasTerminal(id)]_vars

\* C6: once a worker has executed an enqueued job, a notification.sent or
\* notification.error JobEvent exists for its job_id.
C6_ExecutedJobHasOutcomeEvent ==
    \A k \in 1..Len(deliveries) :
        \E e \in 1..Len(job_events) :
            /\ job_events[e].job_id = deliveries[k]
            /\ job_events[e].event_type \in TerminalEvents


\* the inline path handled a pair whose adapter raised
InlineAdapterRaised == Handled("inline") /\ last'.outcome.kind = "raise"

\* the step counted one error on the pair's channel and no delivery
CountsOneError ==
    /\ Stat(summary', last'.channel, "errors")
         = Stat(summary, last'.channel, "errors") + 1
    /\ Stat(summary', last'.channel, "enqueued")
         = Stat(summary, last'.channel, "enqueued")

C8_FailuresAreLocal == pc # "raised" /\ run_exc = NoneV

\* C9 (as stated): a matched action on a channel without adapter: in a dry
\* run errors increments and the attempt is audited with status error and
\* "adaptador no configurado"; inline live, deliver() raises
\* AdapterNotFound and errors increments; the run continues in both.
C9_Original ==
    [][/\ (Handled("dry_run") /\ NoAdapter(last')) =>
            /\ Stat(summary', last'.channel, "errors")
                 = Stat(summary, last'.channel, "errors") + 1
            /\ Len(NewRows) = 1
            /\ NewRows[1].status = "error"
            /\ NewRows[1].error = "adaptador no configurado"
            /\ Continues
       /\ (Handled("inline") /\ NoAdapter(last')) =>
            /\ CountsOneError
            /\ Continues]_vars

\* C9 (amended): in a dry run the match is counted, errors does not
\* change, and with an audit repository the attempt is audited with status
\* dry_run and the error text "adaptador no configurado" (without one
\* nothing is written); inline live, deliver() raises AdapterNotFound
\* before the adapter is invoked or an audit written, and errors
\* increments; the run continues in both.
C9_MissingAdapter ==
    [][/\ (Handled("dry_run") /\ NoAdapter(last')) =>
            /\ Stat(summary', last'.channel, "errors")
                 = Stat(summary, last'.channel, "errors")
            /\ Stat(summary', last'.channel, "matches")
                 = Stat(summary, last'.channel, "matches") + 1
            /\ IF hasRepo
               THEN /\ Len(NewRows) = 1
                    /\ NewRows[1].status = "dry_run"
                    /\ NewRows[1].error = "adaptador no configurado"
                    /\ NewRows[1].job_id = NoJob
               ELSE notifications' = notifications
            /\ Continues
       /\ (Handled("inline") /\ NoAdapter(last')) =>
            /\ CountsOneError
            /\ notifications' = notifications
            /\ adapter_calls' = adapter_calls
            /\ Continues]_vars

C9_Witness ==
    /\ last.path = "dry_run"
    /\ NoAdapter(last)
    /\ hasRepo
    /\ adapters # {}
    /\ notifications # << >>
    /\ notifications[Len(notifications)].error = "adaptador no configurado"
    /\ notifications[Len(notifications)].row = last.row

\* a live run that hands every matched action to the queue
QueuedRun == ~dry_run /\ hasQueue /\ ~Quiet

\* one enqueue call per counted match, to the configured job name, with
\* the rendered action and job ids that differ from one another
OneEnqueuePerMatch ==
    /\ Len(queue_calls) = Total("matches")
    /\ Total("enqueued") = Total("matches")
    /\ \A k \in 1..Len(queue_calls) :
         /\ queue_calls[k].job_name = "app.notify.worker.dispatch"
         /\ queue_calls[k].action
              = _render_action(actions[queue_calls[k].act], queue_calls[k].item)
    /\ \A k, l \in 1..Len(queue_calls) :
         queue_calls[k].job_id = queue_calls[l].job_id => k = l

\* one queued audit per enqueue call, with its job_id, and the Job queued
OneQueuedAuditPerEnqueue ==
    /\ Len(notifications) = Len(queue_calls)
    /\ \A k \in 1..Len(queue_calls) :
         /\ notifications[k].status = "queued"
         /\ notifications[k].job_id = queue_calls[k].job_id
         /\ queue_calls[k].job_id \in DOMAIN jobs
         /\ jobs[queue_calls[k].job_id].status = "queued"

\* C10 (as stated): live, queue configured, outside the quiet window: each
\* matched action causes exactly one enqueue call to the configured job
\* name with the rendered action and a fresh job_id, increments enqueued,
\* and writes exactly one queued audit with that job_id, which
\* materialises a Job with status queued.
C10_Original ==
    (QueuedRun /\ pc # "queued_audit") =>
        OneEnqueuePerMatch /\ OneQueuedAuditPerEnqueue

\* C10 (amended): the queued audit and its Job are written when the
\* dispatcher has an audit repository; without one the action is enqueued
\* and counted but no audit and no Job is written.
C10_EnqueueOutsideQuietHours ==
    (QueuedRun /\ pc # "queued_audit") =>
        /\ OneEnqueuePerMatch
        /\ IF hasRepo THEN OneQueuedAuditPerEnqueue
           ELSE notifications = << >> /\ DOMAIN jobs = {}

C10_Witness ==
    /\ QueuedRun
    /\ quiet_hours.set
    /\ hasRepo
    /\ pc = "done"
    /\ Len(queue_calls) >= 2
    /\ Len(notifications) >= 2
    /\ queue_calls[1].action.channel # queue_calls[2].action.channel


\* C11: with a queue injected, a live dispatch() never calls deliver() and
\* never invokes an adapter; every matched action outside the quiet window
\* is enqueued instead.
C11_QueueMeansNoInlineDelivery ==
    (~dry_run /\ hasQueue) =>
        /\ adapter_calls.dispatcher = 0
        /\ last.path \notin {"inline", "dry_run"}
        /\ (~Quiet /\ pc # "queued_audit") =>
               Len(queue_calls) = Total("matches")

C11_Witness ==
    /\ ~dry_run
    /\ hasQueue
    /\ adapters # {}
    /\ pc = "done"
    /\ Len(queue_calls) >= 2
    /\ adapter_calls.dispatcher = 0


\* a live matched action is at hand while the clock is inside the window
MatchedInsideWindow ==
    /\ pc = "actions"
    /\ Matched
    /\ ~dry_run
    /\ quiet_hours.set
    /\ ~allows(quiet_hours, now)

\* the step counts one quiet-hours skip on the channel and nothing else,
\* calls neither queue.enqueue nor an adapter, and moves on
SkipsQuietly ==
    /\ Stat(summary', channel, "skipped_quiet_hours")
         = Stat(summary, channel, "skipped_quiet_hours") + 1
    /\ Stat(summary', channel, "enqueued") = Stat(summary, channel, "enqueued")
    /\ Stat(summary', channel, "errors") = Stat(summary, channel, "errors")
    /\ queue_calls' = queue_calls
    /\ adapter_calls' = adapter_calls
    /\ Continues

\* C12 (as stated): live, clock inside the quiet window: each matched
\* action increments skipped_quiet_hours by 1, writes exactly one audit
\* with status quiet_hours, leaves enqueued and errors unchanged and causes
\* no queue.enqueue call and no adapter invocation.
C12_Original ==
    [][MatchedInsideWindow =>
         /\ SkipsQuietly
         /\ Len(NewRows) = 1
         /\ NewRows[1].status = "quiet_hours"]_vars

\* C12 (amended): the quiet_hours audit is written when the dispatcher has
\* an audit repository; without one no audit is written. The statistics,
\* the queue and the adapters behave as stated.
C12_QuietHoursSkip ==
    [][MatchedInsideWindow =>
         /\ SkipsQuietly
         /\ IF hasRepo
            THEN /\ Len(NewRows) = 1
                 /\ NewRows[1].status = "quiet_hours"
                 /\ NewRows[1].channel = channel
            ELSE notifications' = notifications]_vars

C12_Witness ==
    /\ last.path = "quiet_hours"
    /\ hasRepo
    /\ hasQueue
    /\ adapters # {}
    /\ Stat(summary, last.channel, "skipped_quiet_hours") >= 2
    /\ Len(notifications) >= 2
    /\ notifications[Len(notifications)].status = "quiet_hours"

\* C13: a quiet_hours audit persisted through the audit repository comes
\* with a Job, upserted for that action, whose status is paused.
C13_QuietHoursJobPaused ==
    \A k \in 1..Len(notifications) :
        notifications[k].status = "quiet_hours" =>
            /\ notifications[k].job_id \in DOMAIN jobs
            /\ jobs[notifications[k].job_id].status = "paused"


\* the minutes of the day a window keeps quiet: [start, end), or from start
\* to midnight and from midnight to end when the window spans midnight
QuietMinutes(qh) ==
    IF qh.start < qh.end
    THEN { t \in DayMinutes : qh.start <= t /\ t < qh.end }
    ELSE { t \in DayMinutes : qh.start <= t \/ t < qh.end }

\* C14 (as stated): allows(t) is true iff t is outside [start, end) when
\* start < end, and iff t is outside [end, start) when start > end.
C14_Original ==
    allowed # << >> =>
        /\ quiet_hours.start < quiet_hours.end =>
             (allowed[1] <=> ~(quiet_hours.start <= now /\ now < quiet_hours.end))
        /\ quiet_hours.start > quiet_hours.end =>
             (allowed[1] <=> ~(quiet_hours.end <= now /\ now < quiet_hours.start))

\* C14 (amended): allows(t) is true iff t is outside [start, end) when
\* start < end, and iff t is inside [end, start) when start > end: in both
\* cases iff t is not one of the window's quiet minutes.
C14_AllowsOutsideWindow ==
    (allowed # << >> /\ quiet_hours.start # quiet_hours.end) =>
        /\ allowed[1] <=> now \notin QuietMinutes(quiet_hours)
        /\ quiet_hours.start > quiet_hours.end =>
             (allowed[1] <=> (quiet_hours.end <= now /\ now < quiet_hours.start))

C14_Witness ==
    /\ allowed = << TRUE >>
    /\ quiet_hours.start > quiet_hours.end
    /\ quiet_hours.end = Time(7, 59)
    /\ now = Time(12, 0)

\* C15: for QuietHours(21:00, 08:00), allows is false from 21:00 to 23:59
\* and from 00:00 to 07:59 and true from 08:00 to 20:59; allows(07:59) and
\* allows(22:00) are false, allows(08:00) and allows(10:00) are true.
C15_NightWindow ==
    (allowed # << >> /\ quiet_hours = Window(Time(21, 0), Time(8, 0))) =>
        /\ now \in Time(21, 0)..Time(23, 59) => ~allowed[1]
        /\ now \in Time(0, 0)..Time(7, 59) => ~allowed[1]
        /\ now \in Time(8, 0)..Time(20, 59) => allowed[1]
        /\ now \in {Time(7, 59), Time(22, 0)} => ~allowed[1]
        /\ now \in {Time(8, 0), Time(10, 0)} => allowed[1]

C15_Witness ==
    /\ quiet_hours = Window(Time(21, 0), Time(8, 0))
    /\ now = Time(7, 59)
    /\ allowed = << FALSE >>


\* C16: every persisted audit with status sent has sent_at set, and every
\* persisted audit with status error has a non-empty error, whatever the
\* adapter did (an exception with an empty message included).
C16_SentAtAndErrorPopulated ==
    \A k \in 1..Len(notifications) :
        /\ notifications[k].status = "sent" => notifications[k].sent_at # NoneV
        /\ notifications[k].status = "error" =>
             notifications[k].error \notin {NoneV, ""}

\* C17: no step of the dispatcher or of a worker modifies or deletes an
\* audit row: the rows present before a step are the first rows after it,
\* unchanged, and an attempt that writes an audit adds one row.
C17_AuditRowsAreImmutable ==
    [][/\ Len(notifications') >= Len(notifications)
       /\ SubSeq(notifications', 1, Len(notifications)) = notifications
       /\ Len(notifications') <= Len(notifications) + 1]_vars

C17_Witness ==
    /\ Len(notifications) >= 2
    /\ \E k, l \in 1..Len(notifications) :
         /\ k < l
         /\ notifications[k].status = "queued"
         /\ notifications[l].by = "worker"
         /\ notifications[l].status \in {"sent", "error"}
         /\ notifications[l].job_id = notifications[k].job_id


\* the Job status the specification assigns to an audit status
MappedStatus ==
    [queued |-> "queued", dry_run |-> "dry_run", quiet_hours |-> "paused",
     sent |-> "succeeded", error |-> "failed"]

\* index of the audit committed last for the job
LastAuditOf(id) ==
    CHOOSE k \in 1..Len(notifications) :
        /\ notifications[k].job_id = id
        /\ \A l \in 1..Len(notifications) :
             notifications[l].job_id = id => l <= k

\* C18: after any sequence of add() calls every Job's status is the mapped
\* status (queued->queued, dry_run->dry_run, quiet_hours->paused,
\* sent->succeeded, error->failed) of the audit committed last for its
\* job_id, whether that add() created the Job or found it.
C18_JobStatusFollowsLastAudit ==
    \A id \in DOMAIN jobs :
        /\ \E k \in 1..Len(notifications) : notifications[k].job_id = id
        /\ jobs[id].status = MappedStatus[notifications[LastAuditOf(id)].status]

C18_Witness ==
    /\ Len(notifications) = 3
    /\ notifications[1].job_id = 1 /\ notifications[1].status = "quiet_hours"
    /\ notifications[2].job_id = 1 /\ notifications[2].status = "sent"
    /\ notifications[3].job_id = 1 /\ notifications[3].status = "error"
    /\ jobs[1].status = "failed"

\* the event type the specification gives to an audit status
EventTypeOf ==
    [queued |-> "notification.queued", dry_run |-> "notification.dry_run",
     quiet_hours |-> "notification.quiet_hours", sent |-> "notification.sent",
     error |-> "notification.error"]

\* the step's add() with a job_id inserts exactly one JobEvent, of that job
\* and typed by the audit's status; an add() without job_id inserts none
OneEventPerAdd ==
    IF NewRows # << >> /\ NewRows[1].job_id # NoJob
    THEN /\ Len(job_events') = Len(job_events) + 1
         /\ SubSeq(job_events', 1, Len(job_events)) = job_events
         /\ job_events'[Len(job_events')].job_id = NewRows[1].job_id
         /\ job_events'[Len(job_events')].event_type
              = EventTypeOf[NewRows[1].status]
    ELSE job_events' = job_events

\* the audit a worker writes carries the job_id of the enqueue call for the
\* same row x action pair, which is the job_id of the queued audit
WorkerAuditsShareJobId ==
    \A n \in 1..Len(notifications) :
        notifications[n].by = "worker" =>
            /\ \E c \in 1..Len(queue_calls) :
                 /\ queue_calls[c].job_id = notifications[n].job_id
                 /\ queue_calls[c].row = notifications[n].row
                 /\ queue_calls[c].act = notifications[n].act
            /\ \A m \in 1..Len(notifications) :
                 (/\ notifications[m].status = "queued"
                  /\ notifications[m].row = notifications[n].row
                  /\ notifications[m].act = notifications[n].act)
                     => notifications[m].job_id = notifications[n].job_id

\* C19: every add() carrying a job_id inserts exactly one JobEvent with
\* that job_id and event_type "notification.<status>", and the sent/error
\* audit a worker writes for a queued job carries the job_id of the queued
\* audit and of the enqueued payload.
C19_EventsShareJobId ==
    []WorkerAuditsShareJobId /\ [][OneEventPerAdd]_vars

C19_Witness ==
    /\ hasRepo
    /\ \E k, l \in 1..Len(notifications) :
         /\ notifications[k].status = "queued"
         /\ notifications[l].by = "worker"
         /\ notifications[l].job_id = notifications[k].job_id
         /\ Cardinality({ e \in 1..Len(job_events) :
                job_events[e].job_id = notifications[k].job_id }) >= 2
    /\ \E e \in 1..Len(job_events) :
         job_events[e].event_type = "notification.error"

\* C20: within one dispatch() run the audits are written in the order the
\* pairs are evaluated: rows in order, and for one row actions in order.
C20_AuditOrderMirrorsEvaluation ==
    \A k, l \in 1..Len(notifications) :
        k < l =>
            \/ notifications[k].row < notifications[l].row
            \/ /\ notifications[k].row = notifications[l].row
               /\ notifications[k].act < notifications[l].act

C20_Witness ==
    /\ pc = "done"
    /\ Len(notifications) >= 3
    /\ notifications[1].row = 1 /\ notifications[1].act = 1
    /\ notifications[2].row = 1 /\ notifications[2].act = 2
    /\ notifications[3].row = 2


\* a live deliver() call of the dispatcher invoked the adapter
AdapterInvoked == Handled("inline") /\ last'.outcome.kind # NoneV

NotForThisRow ==
    /\ pc = "actions"
    /\ \/ Lower(actions[j].type) # "notify"
       \/ ~_should_dispatch(actions[j].when, item)

\* C22: an action whose type is not "notify", or whose guard is false for
\* the row, has no effect for that row: no statistic changes and no channel
\* entry is created, no audit is written, nothing is enqueued, no adapter
\* is invoked, and dispatch() goes on.
C22_SkippedActionHasNoEffect ==
    [][NotForThisRow =>
         /\ summary' = summary
         /\ notifications' = notifications
         /\ jobs' = jobs
         /\ job_events' = job_events
         /\ queue_calls' = queue_calls
         /\ adapter_calls' = adapter_calls
         /\ Continues]_vars

C22_Witness ==
    /\ last.path = "skip"
    /\ Lower(actions[last.act].type) = "notify"
    /\ actions[last.act].when # NoneV
    /\ last.row = 2
    /\ notifications # << >>
    /\ summary # EmptyMap


\* the sheet row the k-th evaluated row was read from
SheetRowOf(k) == sheet[evaluated_rows[k].src]

\* C23: for every sheet row whose email is empty, a workflow run writes no
\* audit and enqueues nothing for that row.
C23_EmptyEmailRowsAreSkipped ==
    /\ \A n \in 1..Len(notifications) :
         SheetRowOf(notifications[n].row).email # ""
    /\ \A c \in 1..Len(queue_calls) :
         SheetRowOf(queue_calls[c].row).email # ""

\* nothing has been dispatched: no audit, no enqueue, no adapter call
NothingDispatched ==
    /\ notifications = << >>
    /\ queue_calls = << >>
    /\ adapter_calls.dispatcher = 0
    /\ summary = EmptyMap

\* C28: run() evaluates the rules of every row before it dispatches any
\* action: when rule evaluation raises on some row of the sheet, run()
\* raises RuleEvaluationError and nothing is ever dispatched, for the rows
\* before the failing one either.
C28_RulesBeforeDispatch ==
    /\ run_exc = "RuleEvaluationError" => (pc = "raised" /\ NothingDispatched)
    /\ (\E k \in 1..Len(sheet) : RuleSetEvaluate(sheet[k]).raised # NoneV) =>
          (pc \in {"evaluate", "raised"} /\ NothingDispatched)
    /\ pc \notin {"evaluate", "raised"} => Len(evaluated_rows) = Len(sheet)

C28_Witness ==
    /\ run_exc = "RuleEvaluationError"
    /\ Len(sheet) = 2
    /\ Len(evaluated_rows) = 1
    /\ evaluated_rows[1].item.debe_notificar
    /\ sheet[1].email # ""

\* C29: for a window with start == end allows(t) is false for every time
\* of day, and a live run of a dispatcher configured with it counts every
\* matched action as skipped_quiet_hours and never enqueues or delivers.
C29_DegenerateWindowSuppressesAll ==
    (quiet_hours.set /\ quiet_hours.start = quiet_hours.end) =>
        /\ \A t \in DayMinutes : ~allows(quiet_hours, t)
        /\ ~dry_run =>
             /\ queue_calls = << >>
             /\ adapter_calls.dispatcher = 0
             /\ last.path \notin {"inline", "enqueue", "queued"}
             /\ Total("skipped_quiet_hours") = Total("matches")
             /\ Total("enqueued") = 0

C29_Witness ==
    /\ quiet_hours.set
    /\ quiet_hours.start = quiet_hours.end
    /\ ~dry_run
    /\ hasQueue
    /\ pc = "done"
    /\ Total("skipped_quiet_hours") >= 2


\* the elements of a sequence
Range(q) == { q[k] : k \in 1..Len(q) }

\* the fields of the mapping that are required and have a candidate column
\* in the header set
ResolvedRequired ==
    { f \in Range(Fields) :
        /\ mapping[f].required
        /\ Range(mapping[f].sources) \cap headers # {} }

\* every required field has a candidate column in the header set
AllRequiredResolved ==
    \A f \in Range(Fields) :
        mapping[f].required => Range(mapping[f].sources) \cap headers # {}

\* C24: a required field with at least one candidate source present in the
\* header set contributes nothing to missing_columns, and when every
\* required field has one the summary is valid.
C24_MissingOnlyWhenNoCandidate ==
    ipc \in {"rows", "returned", "raised"} =>
        /\ \A f \in ResolvedRequired :
             Range(mapping[f].sources) \cap Range(parsed.missing_columns) = {}
        /\ AllRequiredResolved => is_valid(parsed)

\* the required columns the workbook does not carry
AbsentRequired == { c \in Range(required_sources(mapping, 1)) : c \notin headers }

\* C25: when a required column is absent from the sheet, ingest_workbook
\* returns a summary listing it in missing_columns with is_valid false, and
\* no step of the run changes the tables or writes an audit.
C25_InvalidWorkbookChangesNothing ==
    [][AbsentRequired # {} =>
         /\ db' = db
         /\ notifications' = notifications
         /\ ipc' \notin {"rows", "raised"}
         /\ ipc' = "returned" =>
              /\ AbsentRequired \subseteq Range(parsed'.missing_columns)
              /\ parsed'.errors # << >>
              /\ stats' = LoaderStats
              /\ session' = SessionOn(db)]_vars

C25_Witness ==
    /\ ipc = "returned"
    /\ headers = {"Email"}
    /\ mapping.course_name.required
    /\ parsed.missing_columns = << "Curso" >>
    /\ db = SeededDb
    /\ Len(workbook) = 2
    /\ workbook[1].Email = "juan"
    /\ run = 2

\* no two rows of a table are equal
Unique(table) ==
    \A a, b \in 1..Len(table) : table[a] = table[b] => a = b

\* the email column of the students table
Emails(table) == [k \in 1..Len(table) |-> table[k].email]

\* C26: after any sequence of ingest runs the committed tables hold at
\* most one Enrollment per (learner, course), one Course per name and one
\* Learner per email.
C26_EntitiesAreUnique ==
    /\ Unique(db.enrollments)
    /\ Unique(db.courses)
    /\ Unique(Emails(db.students))

\* C30: a second ingest of the same workbook leaves the tables unchanged
\* and returns with zero created and zero updated entities.
C30_SecondIngestIsNoOp ==
    [][run >= 2 =>
         /\ db' = db
         /\ ipc' # "raised"
         /\ ipc' = "returned" => stats' = LoaderStats]_vars


\* the audit rows stored for the call k
RowsOfCall(k) ==
    { n \in 1..Len(notifications) : notifications[n].row = calls[k].entry.row }

\* C27: for any interleaving of add() calls every call returns its
\* persisted row, its Job, audit row and JobEvent are stored together or
\* not at all, and a Job row exists for the job_id of every returned call.
C27_ConcurrentAddsAllPersist ==
    \A k \in DOMAIN calls :
        /\ calls[k].at # "raised"
        /\ calls[k].at = "returned" =>
             /\ Cardinality(RowsOfCall(k)) = 1
             /\ calls[k].entry.job_id # NoJob =>
                  calls[k].entry.job_id \in DOMAIN jobs
        /\ calls[k].at # "returned" => RowsOfCall(k) = {}

====
